---- MODULE Spec2Model ----
(***************************************************************************)
(* A model of the configuration compiler of infra/conf/xray.go: the        *)
(* override merger (Config.Override), the stream-settings overlay          *)
(* (applyTransportConfig), the inbound and outbound compilers              *)
(* (InboundDetourConfig.Build, OutboundDetourConfig.Build) and the         *)
(* top-level compiler (Config.Build).                                      *)
(*                                                                         *)
(* Conventions.  A Go pointer or optional value is a sequence of length    *)
(* 0 (nil) or 1 (the pointee).  A Go string that the code indexes,         *)
(* lower-cases or searches is a sequence of one-character strings; a       *)
(* string that is only compared for equality is a TLA+ string.  A Go       *)
(* slice is a sequence.  A call's outcome is a record [ok, err, val].      *)
(***************************************************************************)
EXTENDS Integers, Sequences, FiniteSets, TLC

VARIABLES
    c,        \* Config: the document Override merges into and Build compiles
    cPre,     \* the document as it was before the last call on it
    o,        \* the override document of the last Config.Override call
    fn,       \* the caller-identity string of the last Config.Override call
    config,   \* what the last Config.Build call returned
    ib,       \* the InboundDetourConfig under compilation
    ibRet,    \* what InboundDetourConfig.Build returned for ib
    ob,       \* the OutboundDetourConfig under compilation
    obPre,    \* ob as it was before OutboundDetourConfig.Build
    obRet,    \* what OutboundDetourConfig.Build returned for ob
    s,        \* the StreamConfig applyTransportConfig writes to
    t,        \* the TransportConfig applyTransportConfig reads
    sPre,     \* s as it was before the last applyTransportConfig call
    calls     \* the number of calls made so far

vars == <<c, cPre, o, fn, config, ib, ibRet, ob, obPre, obRet, s, t, sPre, calls>>

\* ------------------------------------------------------------------------
\* Optional values, strings, outcomes

Nil == <<>>

Some(v) == <<v>>

Opt(S) == {Nil} \cup {Some(v) : v \in S}

Ok(v) == [ok |-> TRUE, err |-> "", val |-> Some(v)]

Err(e) == [ok |-> FALSE, err |-> e, val |-> Nil]

NoCall == [ok |-> FALSE, err |-> "not called", val |-> Nil]

UpperChars == <<"A","B","C","D","E","F","G","H","I","J","K","L","M","N","O","P","Q","R","S","T","U","V","W","X","Y","Z">>

LowerChars == <<"a","b","c","d","e","f","g","h","i","j","k","l","m","n","o","p","q","r","s","t","u","v","w","x","y","z">>

ToLowerChar(ch) == IF \E i \in DOMAIN UpperChars : UpperChars[i] = ch THEN LowerChars[CHOOSE i \in DOMAIN UpperChars : UpperChars[i] = ch] ELSE ch

\* strings.ToLower
ToLower(str) == [i \in DOMAIN str |-> ToLowerChar(str[i])]

\* strings.Contains
Contains(str, sub) == \E i \in 0..(Len(str) - Len(sub)) : SubSeq(str, i + 1, i + Len(sub)) = sub

SeqsUpTo(S, n) == UNION {[1..k -> S] : k \in 0..n}

\* ------------------------------------------------------------------------
\* Stream settings and the transport overlay

BlockNames == {"TCPSettings", "KCPSettings", "WSSettings", "HTTPSettings", "DSSettings"}

\* the TransportConfig field each StreamConfig block is filled from
TransportField(b) == CASE b = "TCPSettings" -> "TCPConfig" [] b = "KCPSettings" -> "KCPConfig" [] b = "WSSettings" -> "WSConfig" [] b = "HTTPSettings" -> "HTTPConfig" [] b = "DSSettings" -> "DSConfig"

EmptyStreamConfig == [TCPSettings |-> Nil, KCPSettings |-> Nil, WSSettings |-> Nil, HTTPSettings |-> Nil, DSSettings |-> Nil, SocketSettings |-> Nil]

EmptyTransportConfig == [TCPConfig |-> Nil, KCPConfig |-> Nil, WSConfig |-> Nil, HTTPConfig |-> Nil, DSConfig |-> Nil]

\* a faulty overlay: the TCP block is taken from the defaults even when set
applyTransportConfigOverwrite(sc, tc) ==
    [sc EXCEPT !.TCPSettings = tc.TCPConfig,
               !.KCPSettings = IF @ = Nil THEN tc.KCPConfig ELSE @,
               !.WSSettings = IF @ = Nil THEN tc.WSConfig ELSE @,
               !.HTTPSettings = IF @ = Nil THEN tc.HTTPConfig ELSE @,
               !.DSSettings = IF @ = Nil THEN tc.DSConfig ELSE @]

applyTransportConfig(sc, tc) ==
    [sc EXCEPT !.TCPSettings = IF @ = Nil THEN tc.TCPConfig ELSE @,
               !.KCPSettings = IF @ = Nil THEN tc.KCPConfig ELSE @,
               !.WSSettings = IF @ = Nil THEN tc.WSConfig ELSE @,
               !.HTTPSettings = IF @ = Nil THEN tc.HTTPConfig ELSE @,
               !.DSSettings = IF @ = Nil THEN tc.DSConfig ELSE @]

\* ------------------------------------------------------------------------
\* Primitive builders

S_http == <<"h","t","t","p">>

S_https == <<"h","t","t","p","s">>

S_tls == <<"t","l","s">>

S_ssl == <<"s","s","l">>

S_quic == <<"q","u","i","c">>

S_fakedns == <<"f","a","k","e","d","n","s">>

S_fakednsOthers == <<"f","a","k","e","d","n","s","+","o","t","h","e","r","s">>

S_always == <<"a","l","w","a","y","s">>

S_random == <<"r","a","n","d","o","m">>

S_external == <<"e","x","t","e","r","n","a","l">>

S_localhost == <<"l","o","c","a","l","h","o","s","t">>

S_tail == <<"t","a","i","l">>

RECURSIVE toProtocolListFrom(_, _, _)
toProtocolListFrom(list, i, kp) ==
    IF i > Len(list) THEN Ok(kp)
    ELSE LET p == ToLower(list[i]) IN
         IF p = S_http THEN toProtocolListFrom(list, i + 1, Append(kp, "KnownProtocols_HTTP"))
         ELSE IF p \in {S_https, S_tls, S_ssl} THEN toProtocolListFrom(list, i + 1, Append(kp, "KnownProtocols_TLS"))
         ELSE Err("Unknown protocol")

toProtocolList(list) == toProtocolListFrom(list, 1, <<>>)

RECURSIVE SniffingDestFrom(_, _, _)
SniffingDestFrom(list, i, p) ==
    IF i > Len(list) THEN Ok(p)
    ELSE LET protocol == ToLower(list[i]) IN
         IF protocol = S_http THEN SniffingDestFrom(list, i + 1, Append(p, S_http))
         ELSE IF protocol \in {S_tls, S_https, S_ssl} THEN SniffingDestFrom(list, i + 1, Append(p, S_tls))
         ELSE IF protocol = S_quic THEN SniffingDestFrom(list, i + 1, Append(p, S_quic))
         ELSE IF protocol = S_fakedns THEN SniffingDestFrom(list, i + 1, Append(p, S_fakedns))
         ELSE IF protocol = S_fakednsOthers THEN SniffingDestFrom(list, i + 1, Append(p, S_fakednsOthers))
         ELSE Err("unknown protocol")

SniffingConfigBuild(sn) ==
    LET p == IF sn.DestOverride # Nil THEN SniffingDestFrom(sn.DestOverride[1], 1, <<>>) ELSE Ok(<<>>)
        d == IF sn.DomainsExcluded # Nil THEN [i \in DOMAIN sn.DomainsExcluded[1] |-> ToLower(sn.DomainsExcluded[1][i])] ELSE <<>>
    IN IF ~p.ok THEN p
       ELSE Ok([Enabled |-> sn.Enabled, DestinationOverride |-> p.val[1], DomainsExcluded |-> d, MetadataOnly |-> sn.MetadataOnly, RouteOnly |-> sn.RouteOnly])

\* MuxConfig.Build: the value it returns
MuxConfigBuild(m) ==
    IF m.XudpProxyUDP443 \notin {"", "reject", "allow", "skip"} THEN Err("unknown xudpProxyUDP443")
    ELSE Ok([Enabled |-> m.Enabled, Concurrency |-> m.Concurrency, XudpConcurrency |-> m.XudpConcurrency, XudpProxyUDP443 |-> IF m.XudpProxyUDP443 = "" THEN "reject" ELSE m.XudpProxyUDP443])

\* MuxConfig.Build: the receiver as the call leaves it
MuxConfigAfterBuild(m) == IF m.XudpProxyUDP443 = "" THEN [m EXCEPT !.XudpProxyUDP443 = "reject"] ELSE m

AllocationBuild(a) ==
    LET name == ToLower(a.Strategy)
        type == IF name = S_always THEN "AllocationStrategy_Always" ELSE IF name = S_random THEN "AllocationStrategy_Random" ELSE IF name = S_external THEN "AllocationStrategy_External" ELSE "none"
    IN IF type = "none" THEN Err("unknown allocation strategy")
       ELSE Ok([Type |-> type, Concurrency |-> a.Concurrency, Refresh |-> a.RefreshMin])

\* PortList.Build: the ranges, in order, as the receiver's port list
PortListBuild(pl) == [Range |-> [i \in DOMAIN pl.Range |-> [From |-> pl.Range[i].From, To |-> pl.Range[i].To]]]

\* StreamConfig.Build: the compiled stream settings carry the blocks of the record
StreamConfigBuild(sc) == Ok([TransportSettings |-> {<<b, sc[b][1]>> : b \in {x \in BlockNames : sc[x] # Nil}}, SocketSettings |-> sc.SocketSettings])

inboundProtocols == {"dokodemo-door", "http", "shadowsocks", "socks", "vless", "vmess", "trojan", "mtproto"}

outboundProtocols == {"blackhole", "loopback", "freedom", "http", "shadowsocks", "socks", "vless", "vmess", "trojan", "mtproto", "dns", "wireguard"}

\* JSONConfigLoader.LoadWithID followed by the loaded settings' Build: an
\* unregistered protocol or an undecodable payload fails
LoadAndBuild(registry, settings, protocol) ==
    LET payload == IF settings = Nil THEN "{}" ELSE settings[1] IN
    IF protocol \notin registry THEN Err("failed to load detour config")
    ELSE IF payload = "garbage" THEN Err("failed to load detour config")
    ELSE Ok([Protocol |-> protocol, Payload |-> payload])

\* ------------------------------------------------------------------------
\* InboundDetourConfig.Build

IsDomain(a) == a.Family = "Domain"

IsIP(a) == a.Family \in {"IPv4", "IPv6"}

RECURSIVE portRangeFrom(_, _)
portRangeFrom(ranges, i) == IF i > Len(ranges) THEN 0 ELSE (ranges[i].To - ranges[i].From + 1) + portRangeFrom(ranges, i + 1)

\* a faulty classification: a socket path keeps the port specification it was given
ResolveListenKeepPorts(cc) ==
    IF cc.ListenOn = Nil THEN
        IF cc.PortList = Nil THEN Err("Listen on AnyIP but no Port(s) set in InboundDetour.")
        ELSE Ok([Listen |-> Nil, PortList |-> Some(PortListBuild(cc.PortList[1]))])
    ELSE LET a == cc.ListenOn[1] IN
        IF IsDomain(a) /\ Len(a.Domain) = 0 THEN Err("panic: index out of range")
        ELSE LET listenDS == IsDomain(a) /\ (a.Domain[1] = "/" \/ a.Domain[1] = "@")
                 listenIP == IsIP(a) \/ (IsDomain(a) /\ a.Domain = S_localhost)
             IN IF listenIP THEN
                    IF cc.PortList = Nil THEN Err("Listen on specific ip without port in InboundDetour.")
                    ELSE Ok([Listen |-> Some(a), PortList |-> Some(PortListBuild(cc.PortList[1]))])
                ELSE IF listenDS THEN Ok([Listen |-> Some(a), PortList |-> IF cc.PortList = Nil THEN Nil ELSE Some(PortListBuild(cc.PortList[1]))])
                ELSE Err("unable to listen on domain address")

\* the listen address and port specification, lines 183-209; an empty domain
\* makes Domain()[0] at line 192 abort the call (a run-time panic)
ResolveListen(cc) ==
    IF cc.ListenOn = Nil THEN
        IF cc.PortList = Nil THEN Err("Listen on AnyIP but no Port(s) set in InboundDetour.")
        ELSE Ok([Listen |-> Nil, PortList |-> Some(PortListBuild(cc.PortList[1]))])
    ELSE LET a == cc.ListenOn[1] IN
        IF IsDomain(a) /\ Len(a.Domain) = 0 THEN Err("panic: index out of range")
        ELSE LET listenDS == IsDomain(a) /\ (a.Domain[1] = "/" \/ a.Domain[1] = "@")
                 listenIP == IsIP(a) \/ (IsDomain(a) /\ a.Domain = S_localhost)
             IN IF listenIP THEN
                    IF cc.PortList = Nil THEN Err("Listen on specific ip without port in InboundDetour.")
                    ELSE Ok([Listen |-> Some(a), PortList |-> Some(PortListBuild(cc.PortList[1]))])
                ELSE IF listenDS THEN Ok([Listen |-> Some(a), PortList |-> Nil])
                ELSE Err("unable to listen on domain address")

\* the allocation strategy, lines 211-234; with no port specification the
\* loop at line 218 reads through a nil pointer and aborts the call
ResolveAllocation(cc) ==
    IF cc.Allocation = Nil THEN Ok(Nil)
    ELSE LET a == cc.Allocation[1]
             concurrency == IF a.Concurrency # Nil /\ a.Strategy = S_random THEN a.Concurrency[1] ELSE -1
         IN IF cc.PortList = Nil THEN Err("panic: nil pointer dereference")
            ELSE IF concurrency >= 0 /\ concurrency >= portRangeFrom(cc.PortList[1].Range, 1) THEN Err("not enough ports")
            ELSE LET as == AllocationBuild(a) IN IF ~as.ok THEN as ELSE Ok(as.val)

\* stream settings, sniffing, domain override and protocol settings, lines 235-271
ResolveInboundRest(cc) ==
    LET ss == IF cc.StreamSetting # Nil THEN StreamConfigBuild(cc.StreamSetting[1]) ELSE Ok(Nil)
        sn == IF cc.SniffingConfig # Nil THEN SniffingConfigBuild(cc.SniffingConfig[1]) ELSE Ok(Nil)
        kp == IF cc.DomainOverride # Nil THEN toProtocolList(cc.DomainOverride[1]) ELSE Ok(<<>>)
        ts == LoadAndBuild(inboundProtocols, cc.Settings, cc.Protocol)
    IN IF ~ss.ok THEN ss
       ELSE IF ~sn.ok THEN Err("failed to build sniffing config")
       ELSE IF ~kp.ok THEN Err("failed to parse inbound detour config")
       ELSE IF ~ts.ok THEN ts
       ELSE Ok([StreamSettings |-> IF cc.StreamSetting # Nil THEN ss.val ELSE Nil,
                SniffingSettings |-> IF cc.SniffingConfig # Nil THEN sn.val ELSE Nil,
                DomainOverride |-> kp.val[1],
                ReceiveOriginalDestination |-> (ts.val[1].Protocol = "dokodemo-door" /\ ts.val[1].Payload = "redirect"),
                ProxySettings |-> ts.val[1]])

InboundBuild(cc) ==
    LET l == ResolveListen(cc) IN
    IF ~l.ok THEN l
    ELSE LET al == ResolveAllocation(cc) IN
    IF ~al.ok THEN al
    ELSE LET r == ResolveInboundRest(cc) IN
    IF ~r.ok THEN r
    ELSE Ok([Tag |-> cc.Tag,
             ReceiverSettings |-> [PortList |-> l.val[1].PortList, Listen |-> l.val[1].Listen,
                                   AllocationStrategy |-> al.val[1], StreamSettings |-> r.val[1].StreamSettings,
                                   SniffingSettings |-> r.val[1].SniffingSettings, DomainOverride |-> r.val[1].DomainOverride,
                                   ReceiveOriginalDestination |-> r.val[1].ReceiveOriginalDestination],
             ProxySettings |-> r.val[1].ProxySettings])

\* ------------------------------------------------------------------------
\* OutboundDetourConfig.Build

ConflictError == "proxySettings.tag is conflicted with sockopt.dialerProxy"

\* a faulty check: either tag alone is taken for a conflict
checkChainProxyConfigEither(cc) ==
    IF cc.StreamSetting = Nil \/ cc.ProxySettings = Nil \/ cc.StreamSetting[1].SocketSettings = Nil THEN Ok("nil")
    ELSE IF Len(cc.ProxySettings[1].Tag) > 0 \/ Len(cc.StreamSetting[1].SocketSettings[1].DialerProxy) > 0 THEN Err(ConflictError)
    ELSE Ok("nil")

checkChainProxyConfig(cc) ==
    IF cc.StreamSetting = Nil \/ cc.ProxySettings = Nil \/ cc.StreamSetting[1].SocketSettings = Nil THEN Ok("nil")
    ELSE IF Len(cc.ProxySettings[1].Tag) > 0 /\ Len(cc.StreamSetting[1].SocketSettings[1].DialerProxy) > 0 THEN Err(ConflictError)
    ELSE Ok("nil")

\* ProxyConfig.Build: a proxy-chain block needs a tag
ProxyConfigBuild(ps) == IF Len(ps.Tag) = 0 THEN Err("invalid outbound detour proxy settings.") ELSE Ok([Tag |-> ps.Tag, TransportLayerProxy |-> ps.TransportLayer])

\* lines 323-341: the sender's stream and proxy settings once the proxy-chain
\* block ps is built; a transport-layer proxy becomes the socket's dialer proxy
ApplyProxySettings(stream, ps) ==
    IF ps.TransportLayerProxy THEN
        [StreamSettings |-> IF stream # Nil
                            THEN IF stream[1].SocketSettings # Nil
                                 THEN Some([stream[1] EXCEPT !.SocketSettings = Some([@[1] EXCEPT !.DialerProxy = ps.Tag])])
                                 ELSE Some([stream[1] EXCEPT !.SocketSettings = Some([DialerProxy |-> ps.Tag])])
                            ELSE Some([TransportSettings |-> {}, SocketSettings |-> Some([DialerProxy |-> ps.Tag])]),
         ProxySettings |-> Nil]
    ELSE [StreamSettings |-> stream, ProxySettings |-> Some(ps)]

\* the steps of Build up to and including the proxy-chain block, lines 302-341
OutboundSender(cc) ==
    LET chk == checkChainProxyConfig(cc) IN
    IF ~chk.ok THEN chk
    ELSE IF cc.SendThrough # Nil /\ IsDomain(cc.SendThrough[1]) THEN Err("unable to send through")
    ELSE LET ss == IF cc.StreamSetting # Nil THEN StreamConfigBuild(cc.StreamSetting[1]) ELSE Ok(Nil) IN
    IF ~ss.ok THEN ss
    ELSE LET stream == IF cc.StreamSetting # Nil THEN ss.val ELSE Nil
             ps == IF cc.ProxySettings # Nil THEN ProxyConfigBuild(cc.ProxySettings[1]) ELSE Ok(Nil)
         IN IF ~ps.ok THEN ps
            ELSE LET sp == IF cc.ProxySettings # Nil THEN ApplyProxySettings(stream, ps.val[1]) ELSE [StreamSettings |-> stream, ProxySettings |-> Nil]
                 IN Ok([Via |-> cc.SendThrough, StreamSettings |-> sp.StreamSettings, ProxySettings |-> sp.ProxySettings])

\* OutboundDetourConfig.Build: the value it returns
OutboundBuild(cc) ==
    LET snd == OutboundSender(cc) IN
    IF ~snd.ok THEN snd
    ELSE LET ms == IF cc.MuxSettings # Nil THEN MuxConfigBuild(cc.MuxSettings[1]) ELSE Ok(Nil) IN
    IF ~ms.ok THEN Err("failed to build Mux config.")
    ELSE LET ts == LoadAndBuild(outboundProtocols, cc.Settings, cc.Protocol) IN
    IF ~ts.ok THEN ts
    ELSE Ok([SenderSettings |-> [Via |-> snd.val[1].Via, StreamSettings |-> snd.val[1].StreamSettings, ProxySettings |-> snd.val[1].ProxySettings,
                                 MultiplexSettings |-> IF cc.MuxSettings # Nil THEN ms.val ELSE Nil],
             Tag |-> cc.Tag,
             ProxySettings |-> ts.val[1]])

\* OutboundDetourConfig.Build: the receiver as the call leaves it; the mux
\* block is reached through a pointer and MuxConfig.Build writes to it
OutboundAfterBuild(cc) ==
    IF OutboundSender(cc).ok /\ cc.MuxSettings # Nil THEN [cc EXCEPT !.MuxSettings = Some(MuxConfigAfterBuild(@[1]))] ELSE cc

\* ------------------------------------------------------------------------
\* Config and Config.Override

\* the optional sub-documents Override replaces wholesale, lines 442-494
SingletonFields == {"LogConfig", "RouterConfig", "DNSConfig", "Transport", "Policy", "API", "Metrics", "Stats", "Reverse", "FakeDNS", "Observatory", "Tun",
                    "InboundConfig", "OutboundConfig", "InboundDetours", "OutboundDetours"}

\* the zero value of Config
EmptyConfig ==
    [Port |-> 0, InboundConfig |-> Nil, OutboundConfig |-> Nil, InboundDetours |-> Nil, OutboundDetours |-> Nil,
     LogConfig |-> Nil, RouterConfig |-> Nil, DNSConfig |-> Nil, InboundConfigs |-> <<>>, OutboundConfigs |-> <<>>,
     Transport |-> Nil, Policy |-> Nil, API |-> Nil, Metrics |-> Nil, Stats |-> Nil, Reverse |-> Nil, FakeDNS |-> Nil,
     Observatory |-> Nil, Tun |-> Nil]

\* a faulty lookup: the last entry with the tag instead of the first
findInboundTagLast(list, tag) ==
    IF \E idx \in DOMAIN list : list[idx].Tag = tag
    THEN (CHOOSE idx \in DOMAIN list : list[idx].Tag = tag /\ \A j \in DOMAIN list : list[j].Tag = tag => j <= idx) - 1
    ELSE -1

\* Config.findInboundTag over c.InboundConfigs: the 0-based index of the first
\* entry with the tag, -1 when there is none
findInboundTag(list, tag) ==
    IF \E idx \in DOMAIN list : list[idx].Tag = tag
    THEN (CHOOSE idx \in DOMAIN list : list[idx].Tag = tag /\ \A j \in DOMAIN list : list[j].Tag = tag => j >= idx) - 1
    ELSE -1

\* Config.findOutboundTag over c.OutboundConfigs
findOutboundTag(list, tag) ==
    IF \E idx \in DOMAIN list : list[idx].Tag = tag
    THEN (CHOOSE idx \in DOMAIN list : list[idx].Tag = tag /\ \A j \in DOMAIN list : list[j].Tag = tag => j >= idx) - 1
    ELSE -1

\* a faulty merge: any non-empty override list is merged by its first entry
OverrideInboundsFirstOnly(base, ovr) ==
    IF Len(ovr) > 0 THEN
        IF Len(base) > 0 /\ Len(ovr) >= 1 THEN
            LET idx == findInboundTag(base, ovr[1].Tag) IN
            IF idx > -1 THEN [base EXCEPT ![idx + 1] = ovr[1]] ELSE Append(base, ovr[1])
        ELSE ovr
    ELSE base

\* lines 498-510: c.InboundConfigs after the merge of o.InboundConfigs
OverrideInbounds(base, ovr) ==
    IF Len(ovr) > 0 THEN
        IF Len(base) > 0 /\ Len(ovr) = 1 THEN
            LET idx == findInboundTag(base, ovr[1].Tag) IN
            IF idx > -1 THEN [base EXCEPT ![idx + 1] = ovr[1]] ELSE Append(base, ovr[1])
        ELSE ovr
    ELSE base

\* a faulty merge: the marker is looked for in the caller identity as given
OverrideOutboundsCaseSensitive(base, ovr, caller) ==
    IF Len(ovr) > 0 THEN
        IF Len(base) > 0 /\ Len(ovr) = 1 THEN
            LET idx == findOutboundTag(base, ovr[1].Tag) IN
            IF idx > -1 THEN [base EXCEPT ![idx + 1] = ovr[1]]
            ELSE IF Contains(caller, S_tail) THEN Append(base, ovr[1])
            ELSE ovr \o base
        ELSE ovr
    ELSE base

\* lines 513-530: c.OutboundConfigs after the merge of o.OutboundConfigs
OverrideOutbounds(base, ovr, caller) ==
    IF Len(ovr) > 0 THEN
        IF Len(base) > 0 /\ Len(ovr) = 1 THEN
            LET idx == findOutboundTag(base, ovr[1].Tag) IN
            IF idx > -1 THEN [base EXCEPT ![idx + 1] = ovr[1]]
            ELSE IF Contains(ToLower(caller), S_tail) THEN Append(base, ovr[1])
            ELSE ovr \o base
        ELSE ovr
    ELSE base

\* Config.Override: the receiver after the call
Override(base, ovr, caller) ==
    [f \in DOMAIN base |->
        IF f \in SingletonFields THEN (IF ovr[f] # Nil THEN ovr[f] ELSE base[f])
        ELSE IF f = "InboundConfigs" THEN OverrideInbounds(base.InboundConfigs, ovr.InboundConfigs)
        ELSE IF f = "OutboundConfigs" THEN OverrideOutbounds(base.OutboundConfigs, ovr.OutboundConfigs, caller)
        ELSE base[f]]

\* ------------------------------------------------------------------------
\* Config.Build

\* a sub-document's Build: the module's typed message, or its error
ModuleBuild(type, conf) == IF conf = "bad" THEN Err("module build failed") ELSE Ok([Type |-> type, Config |-> conf])

\* lines 557-563: the App list Build starts from
InitialApp == <<[Type |-> "dispatcher", Config |-> "{}"], [Type |-> "inbound-manager", Config |-> "{}"], [Type |-> "outbound-manager", Config |-> "{}"]>>

\* a faulty assembly: the fake-DNS module is appended like the others
AppStepsFakeDNSAppended ==
    <<[Field |-> "API", Type |-> "api", Front |-> FALSE], [Field |-> "Metrics", Type |-> "metrics", Front |-> FALSE],
      [Field |-> "Stats", Type |-> "stats", Front |-> FALSE], [Field |-> "LogConfig", Type |-> "log", Front |-> TRUE],
      [Field |-> "RouterConfig", Type |-> "router", Front |-> FALSE], [Field |-> "DNSConfig", Type |-> "dns", Front |-> FALSE],
      [Field |-> "Policy", Type |-> "policy", Front |-> FALSE], [Field |-> "Reverse", Type |-> "reverse", Front |-> FALSE],
      [Field |-> "FakeDNS", Type |-> "fakedns", Front |-> FALSE], [Field |-> "Observatory", Type |-> "observatory", Front |-> FALSE],
      [Field |-> "Tun", Type |-> "tun", Front |-> FALSE]>>

\* lines 565-651: the sub-documents in the order Build reads them, and whether
\* the module goes to the front of the list built so far or to its end
AppSteps ==
    <<[Field |-> "API", Type |-> "api", Front |-> FALSE], [Field |-> "Metrics", Type |-> "metrics", Front |-> FALSE],
      [Field |-> "Stats", Type |-> "stats", Front |-> FALSE], [Field |-> "LogConfig", Type |-> "log", Front |-> TRUE],
      [Field |-> "RouterConfig", Type |-> "router", Front |-> FALSE], [Field |-> "DNSConfig", Type |-> "dns", Front |-> FALSE],
      [Field |-> "Policy", Type |-> "policy", Front |-> FALSE], [Field |-> "Reverse", Type |-> "reverse", Front |-> FALSE],
      [Field |-> "FakeDNS", Type |-> "fakedns", Front |-> TRUE], [Field |-> "Observatory", Type |-> "observatory", Front |-> FALSE],
      [Field |-> "Tun", Type |-> "tun", Front |-> FALSE]>>

\* lines 565-651 from step i on, app being the list built so far; the log
\* module is built from a default when the document has none
RECURSIVE BuildAppFrom(_, _, _)
BuildAppFrom(doc, i, app) ==
    IF i > Len(AppSteps) THEN Ok(app)
    ELSE LET st == AppSteps[i]
             conf == IF st.Field = "LogConfig" /\ doc.LogConfig = Nil THEN Some("DefaultLogConfig") ELSE doc[st.Field]
         IN IF conf = Nil THEN BuildAppFrom(doc, i + 1, app)
            ELSE LET m == ModuleBuild(st.Type, conf[1]) IN
                 IF ~m.ok THEN m
                 ELSE BuildAppFrom(doc, i + 1, IF st.Front THEN <<m.val[1]>> \o app ELSE Append(app, m.val[1]))

\* lines 653-665: the reconciled inbound list, a copy of the document's entries
ReconcileInbounds(doc) ==
    (IF doc.InboundConfig # Nil THEN <<doc.InboundConfig[1]>> ELSE <<>>)
    \o (IF doc.InboundDetours # Nil /\ Len(doc.InboundDetours[1]) > 0 THEN doc.InboundDetours[1] ELSE <<>>)
    \o (IF Len(doc.InboundConfigs) > 0 THEN doc.InboundConfigs ELSE <<>>)

\* lines 689-701
ReconcileOutbounds(doc) ==
    (IF doc.OutboundConfig # Nil THEN <<doc.OutboundConfig[1]>> ELSE <<>>)
    \o (IF doc.OutboundDetours # Nil /\ Len(doc.OutboundDetours[1]) > 0 THEN doc.OutboundDetours[1] ELSE <<>>)
    \o (IF Len(doc.OutboundConfigs) > 0 THEN doc.OutboundConfigs ELSE <<>>)

\* a faulty compatibility rule: the deprecated port is given to every entry
\* that has no port specification
LegacyPortEvery(inbounds, port) ==
    [k \in DOMAIN inbounds |-> IF inbounds[k].PortList = Nil /\ port > 0
                               THEN [inbounds[k] EXCEPT !.PortList = Some([Range |-> <<[From |-> port, To |-> port]>>])]
                               ELSE inbounds[k]]

\* lines 667-673: the deprecated port becomes the port list of the first copy
LegacyPort(inbounds, port) ==
    IF Len(inbounds) > 0 /\ inbounds[1].PortList = Nil /\ port > 0
    THEN [inbounds EXCEPT ![1].PortList = Some([Range |-> <<[From |-> port, To |-> port]>>])]
    ELSE inbounds

\* lines 676-681 and 704-709: the loop's copy of an entry after the overlay
Overlaid(e, transport) ==
    IF transport # Nil
    THEN [e EXCEPT !.StreamSetting = Some(applyTransportConfig(IF @ = Nil THEN EmptyStreamConfig ELSE @[1], transport[1]))]
    ELSE e

\* the document's own entry once the loop has overlaid its copy: the copy
\* shares the entry's StreamConfig when the entry has one
EntryAfterOverlay(e, transport) == IF e.StreamSetting # Nil THEN [e EXCEPT !.StreamSetting = Overlaid(e, transport).StreamSetting] ELSE e

\* lines 675-687 from entry i on: the handlers, or the first error
RECURSIVE BuildInboundsFrom(_, _, _, _)
BuildInboundsFrom(inbounds, transport, i, acc) ==
    IF i > Len(inbounds) THEN Ok(acc)
    ELSE LET ic == InboundBuild(Overlaid(inbounds[i], transport)) IN
         IF ~ic.ok THEN ic ELSE BuildInboundsFrom(inbounds, transport, i + 1, Append(acc, ic.val[1]))

\* lines 703-715 from entry i on
RECURSIVE BuildOutboundsFrom(_, _, _, _)
BuildOutboundsFrom(outbounds, transport, i, acc) ==
    IF i > Len(outbounds) THEN Ok(acc)
    ELSE LET oc == OutboundBuild(Overlaid(outbounds[i], transport)) IN
         IF ~oc.ok THEN oc ELSE BuildOutboundsFrom(outbounds, transport, i + 1, Append(acc, oc.val[1]))

\* the number of entries the loop at 675-687 reaches: all, or up to the first
\* that fails
RECURSIVE InboundsReached(_, _, _)
InboundsReached(inbounds, transport, i) ==
    IF i > Len(inbounds) THEN Len(inbounds)
    ELSE IF ~InboundBuild(Overlaid(inbounds[i], transport)).ok THEN i ELSE InboundsReached(inbounds, transport, i + 1)

RECURSIVE OutboundsReached(_, _, _)
OutboundsReached(outbounds, transport, i) ==
    IF i > Len(outbounds) THEN Len(outbounds)
    ELSE IF ~OutboundBuild(Overlaid(outbounds[i], transport)).ok THEN i ELSE OutboundsReached(outbounds, transport, i + 1)

\* Config.Build: the value it returns.  PostProcessConfigureFile (line 553)
\* is outside these sources and is taken to pass the document on as it is.
Build(doc) ==
    LET app == BuildAppFrom(doc, 1, InitialApp) IN
    IF ~app.ok THEN app
    ELSE LET inb == BuildInboundsFrom(LegacyPort(ReconcileInbounds(doc), doc.Port), doc.Transport, 1, <<>>) IN
    IF ~inb.ok THEN inb
    ELSE LET outb == BuildOutboundsFrom(ReconcileOutbounds(doc), doc.Transport, 1, <<>>) IN
    IF ~outb.ok THEN outb
    ELSE Ok([App |-> app.val[1], Inbound |-> inb.val[1], Outbound |-> outb.val[1]])

\* the document's k-th reconciled inbound entry after Build: overlaid when
\* the loop reached it
InboundEntryAfter(doc, k) ==
    LET inbounds == LegacyPort(ReconcileInbounds(doc), doc.Port)
        e == ReconcileInbounds(doc)[k]
    IN IF BuildAppFrom(doc, 1, InitialApp).ok /\ k <= InboundsReached(inbounds, doc.Transport, 1) THEN EntryAfterOverlay(e, doc.Transport) ELSE e

\* the document's k-th reconciled outbound entry after Build: overlaid, and
\* its mux block written by MuxConfig.Build, when the loop reached it
OutboundEntryAfter(doc, k) ==
    LET outbounds == ReconcileOutbounds(doc)
        e == outbounds[k]
        built == OutboundAfterBuild(Overlaid(e, doc.Transport))
    IN IF BuildAppFrom(doc, 1, InitialApp).ok
          /\ BuildInboundsFrom(LegacyPort(ReconcileInbounds(doc), doc.Port), doc.Transport, 1, <<>>).ok
          /\ k <= OutboundsReached(outbounds, doc.Transport, 1)
       THEN [EntryAfterOverlay(e, doc.Transport) EXCEPT !.MuxSettings = built.MuxSettings]
       ELSE e

\* Config.Build: the document as the call leaves it.  The loops work on
\* copies of the entries; what a copy shares with its entry (the stream
\* settings and the mux block, both held by pointer) is written through.
BuildAfter(doc) ==
    LET n1 == IF doc.InboundConfig # Nil THEN 1 ELSE 0
        n2 == IF doc.InboundDetours # Nil THEN Len(doc.InboundDetours[1]) ELSE 0
        m1 == IF doc.OutboundConfig # Nil THEN 1 ELSE 0
        m2 == IF doc.OutboundDetours # Nil THEN Len(doc.OutboundDetours[1]) ELSE 0
    IN [doc EXCEPT !.InboundConfig = IF @ # Nil THEN Some(InboundEntryAfter(doc, 1)) ELSE @,
                   !.InboundDetours = IF @ # Nil THEN Some([k \in DOMAIN @[1] |-> InboundEntryAfter(doc, n1 + k)]) ELSE @,
                   !.InboundConfigs = [k \in DOMAIN @ |-> InboundEntryAfter(doc, n1 + n2 + k)],
                   !.OutboundConfig = IF @ # Nil THEN Some(OutboundEntryAfter(doc, 1)) ELSE @,
                   !.OutboundDetours = IF @ # Nil THEN Some([k \in DOMAIN @[1] |-> OutboundEntryAfter(doc, m1 + k)]) ELSE @,
                   !.OutboundConfigs = [k \in DOMAIN @ |-> OutboundEntryAfter(doc, m1 + m2 + k)]]

\* ---- the inbound compiler on its own: every inbound spec InitInbound draws

MaxPort == 2

MaxRanges == 2

MaxConcurrency == 3

PortRanges == {r \in [From : 1..MaxPort, To : 1..MaxPort] : r.From <= r.To}

PortLists == {[Range |-> rs] : rs \in SeqsUpTo(PortRanges, MaxRanges)}

Addresses == {[Family |-> "IPv4", Domain |-> <<"1",".","2",".","3",".","4">>],
              [Family |-> "Domain", Domain |-> S_localhost],
              [Family |-> "Domain", Domain |-> <<"L","o","c","a","l","h","o","s","t">>],
              [Family |-> "Domain", Domain |-> <<"/","r","u","n","/","x">>],
              [Family |-> "Domain", Domain |-> <<"@","x">>],
              [Family |-> "Domain", Domain |-> <<"x",".","o","r","g">>],
              [Family |-> "Domain", Domain |-> <<>>]}

Strategies == {S_always, S_random, <<"R","a","n","d","o","m">>, S_external, <<"b","o","g","u","s">>}

Allocations == [Strategy : Strategies, Concurrency : Opt(0..MaxConcurrency), RefreshMin : {Nil}]

SniffingGood == [Enabled |-> TRUE, DestOverride |-> Some(<<<<"T","L","S">>, S_quic>>), DomainsExcluded |-> Some(<<<<"X",".","o","r","g">>>>), MetadataOnly |-> FALSE, RouteOnly |-> FALSE]

SniffingBad == [Enabled |-> TRUE, DestOverride |-> Some(<<S_http, <<"f","t","p">>>>), DomainsExcluded |-> Nil, MetadataOnly |-> FALSE, RouteOnly |-> FALSE]

\* the fields the listen, port and allocation rules do not read
InboundRests == {
    [Protocol |-> "socks", Settings |-> Nil, Tag |-> "", StreamSetting |-> Nil, DomainOverride |-> Nil, SniffingConfig |-> Nil],
    [Protocol |-> "dokodemo-door", Settings |-> Some("redirect"), Tag |-> "a", StreamSetting |-> Some(EmptyStreamConfig), DomainOverride |-> Some(<<S_http, <<"T","l","s">>>>), SniffingConfig |-> Some(SniffingGood)],
    [Protocol |-> "socks", Settings |-> Nil, Tag |-> "a", StreamSetting |-> Nil, DomainOverride |-> Nil, SniffingConfig |-> Some(SniffingBad)],
    [Protocol |-> "socks", Settings |-> Some("garbage"), Tag |-> "a", StreamSetting |-> Nil, DomainOverride |-> Nil, SniffingConfig |-> Nil],
    [Protocol |-> "socks", Settings |-> Some("{}"), Tag |-> "a", StreamSetting |-> Nil, DomainOverride |-> Some(<<S_quic>>), SniffingConfig |-> Nil],
    [Protocol |-> "freedom", Settings |-> Nil, Tag |-> "a", StreamSetting |-> Nil, DomainOverride |-> Nil, SniffingConfig |-> Nil]}

MkInbound(rest, listen, ports, alloc) ==
    [Protocol |-> rest.Protocol, PortList |-> ports, ListenOn |-> listen, Settings |-> rest.Settings, Tag |-> rest.Tag,
     Allocation |-> alloc, StreamSetting |-> rest.StreamSetting, DomainOverride |-> rest.DomainOverride, SniffingConfig |-> rest.SniffingConfig]

InitInbound ==
    /\ \E rest \in InboundRests, listen \in Opt(Addresses), ports \in Opt(PortLists), alloc \in Opt(Allocations) : ib = Some(MkInbound(rest, listen, ports, alloc))
    /\ ibRet = NoCall
    /\ calls = 0
    /\ c = Nil /\ cPre = Nil /\ o = Nil /\ fn = Nil /\ config = NoCall
    /\ ob = Nil /\ obPre = Nil /\ obRet = NoCall /\ s = Nil /\ t = Nil /\ sPre = Nil

BuildInbound ==
    /\ calls = 0
    /\ ibRet' = InboundBuild(ib[1])
    /\ calls' = 1
    /\ UNCHANGED <<c, cPre, o, fn, config, ib, ob, obPre, obRet, s, t, sPre>>

NextInbound == BuildInbound

SpecInbound == InitInbound /\ [][NextInbound]_vars

ListenIsSocketPath(a) == IsDomain(a) /\ Len(a.Domain) > 0 /\ a.Domain[1] \in {"/", "@"}

ListenIsIPOrLocalhost(a) == IsIP(a) \/ (IsDomain(a) /\ a.Domain = S_localhost)

\* the outcomes with which the listen address and port rules stop the call
ListenFailures == {"Listen on AnyIP but no Port(s) set in InboundDetour.", "Listen on specific ip without port in InboundDetour.", "unable to listen on domain address", "panic: index out of range"}

OtherwiseValid(x) == x.PortList # Nil /\ ResolveListen(x).ok /\ x.Allocation # Nil /\ AllocationBuild(x.Allocation[1]).ok /\ ResolveInboundRest(x).ok

\* C6 as claimed: with a strategy that reads "random" in any letter case and a
\* concurrency C, Build fails exactly when C is at least the capacity of the
\* port specification; with another strategy or no concurrency the capacity
\* rule fails nothing.
CapacityRuleAsClaimed ==
    (calls = 1 /\ OtherwiseValid(ib[1])) =>
        LET a == ib[1].Allocation[1]
            N == portRangeFrom(ib[1].PortList[1].Range, 1)
        IN IF ToLower(a.Strategy) = S_random /\ a.Concurrency # Nil
           THEN ~ibRet.ok <=> a.Concurrency[1] >= N
           ELSE ibRet.ok

\* the outcomes that are run-time panics, not error values
AbnormalAborts == {"panic: index out of range", "panic: nil pointer dereference"}

\* C12 as claimed: for every inbound spec Build ends with a handler
\* configuration or an error value, never with an abnormal abort; a socket
\* path without a port specification that carries an allocation strategy is
\* compiled or rejected with an error value.
BuildNeverAborts ==
    calls = 1 => (ibRet.ok \/ ibRet.err \notin AbnormalAborts)

\* ---- the outbound compiler on its own: every outbound spec of OutboundSpecs

SocketConfigs == [DialerProxy : {"", "d"}]

OutboundStreams == {[EmptyStreamConfig EXCEPT !.SocketSettings = so, !.TCPSettings = tcp] : so \in Opt(SocketConfigs), tcp \in Opt({"b1"})}

ProxyConfigs == [Tag : {"", "p"}, TransportLayer : BOOLEAN]

MuxConfigs == [Enabled : {TRUE}, Concurrency : {-1, 8}, XudpConcurrency : {0}, XudpProxyUDP443 : {"", "allow", "bogus"}]

SendThroughs == {[Family |-> "IPv4", Domain |-> <<"1",".","2",".","3",".","4">>], [Family |-> "Domain", Domain |-> <<"x",".","o","r","g">>]}

OutboundSpecs == [Protocol : {"freedom", "socks5"}, SendThrough : Opt(SendThroughs), Tag : {"", "a"}, Settings : Opt({"garbage"}),
                  StreamSetting : Opt(OutboundStreams), ProxySettings : Opt(ProxyConfigs), MuxSettings : Opt(MuxConfigs)]

InitOutbound ==
    /\ \E x \in OutboundSpecs : ob = Some(x)
    /\ obPre = ob
    /\ obRet = NoCall
    /\ calls = 0
    /\ c = Nil /\ cPre = Nil /\ o = Nil /\ fn = Nil /\ config = NoCall
    /\ ib = Nil /\ ibRet = NoCall /\ s = Nil /\ t = Nil /\ sPre = Nil

BuildOutbound ==
    /\ calls = 0
    /\ obRet' = OutboundBuild(ob[1])
    /\ ob' = Some(OutboundAfterBuild(ob[1]))
    /\ obPre' = ob
    /\ calls' = 1
    /\ UNCHANGED <<c, cPre, o, fn, config, ib, ibRet, s, t, sPre>>

NextOutbound == BuildOutbound

SpecOutbound == InitOutbound /\ [][NextOutbound]_vars

\* the proxy-chain tag of an outbound spec; none when the block is absent
ChainTag(x) == IF x.ProxySettings = Nil THEN "" ELSE x.ProxySettings[1].Tag

\* the socket-level dialer-proxy tag of an outbound spec; none when absent
DialerTag(x) == IF x.StreamSetting = Nil \/ x.StreamSetting[1].SocketSettings = Nil THEN "" ELSE x.StreamSetting[1].SocketSettings[1].DialerProxy

\* C8: an outbound spec with a proxy-chain tag and a dialer-proxy tag fails
\* with the conflict error and yields no handler, whatever its other fields;
\* with at most one of the two tags Build never fails with that error.
ChainProxyConflict ==
    calls = 1 =>
        IF ChainTag(obPre[1]) # "" /\ DialerTag(obPre[1]) # ""
        THEN ~obRet.ok /\ obRet.err = ConflictError /\ obRet.val = Nil
        ELSE obRet.err # ConflictError

\* C8 witness: a spec with both tags, a domain bind address, a bad mux policy
\* and an unregistered protocol was refused for the conflict
ChainProxyConflictWitness ==
    /\ calls = 1 /\ obRet.err = ConflictError
    /\ ChainTag(obPre[1]) = "p" /\ DialerTag(obPre[1]) = "d"
    /\ obPre[1].SendThrough # Nil /\ IsDomain(obPre[1].SendThrough[1])
    /\ obPre[1].MuxSettings # Nil /\ obPre[1].MuxSettings[1].XudpProxyUDP443 = "bogus"
    /\ obPre[1].Protocol = "socks5"

\* ---- the override merger: every base document InitOverride draws, one override

MaxEntries == 3

InboundEntry(tag, protocol) ==
    [Protocol |-> protocol, PortList |-> Some([Range |-> <<[From |-> 1, To |-> 1]>>]), ListenOn |-> Nil, Settings |-> Nil, Tag |-> tag,
     Allocation |-> Nil, StreamSetting |-> Nil, DomainOverride |-> Nil, SniffingConfig |-> Nil]

OutboundEntry(tag, protocol) ==
    [Protocol |-> protocol, SendThrough |-> Nil, Tag |-> tag, Settings |-> Nil, StreamSetting |-> Nil, ProxySettings |-> Nil, MuxSettings |-> Nil]

Tags == {"", "a", "b"}

InboundEntries == {InboundEntry(tag, protocol) : tag \in Tags, protocol \in {"socks", "http"}}

OutboundEntries == {OutboundEntry(tag, protocol) : tag \in Tags, protocol \in {"freedom", "blackhole"}}

\* the override lists: none, every single entry, some lists of two
InboundOverrides == SeqsUpTo(InboundEntries, 1) \cup {<<InboundEntry(x, "socks"), InboundEntry(y, "http")>> : x, y \in Tags}

OutboundOverrides == SeqsUpTo(OutboundEntries, 1) \cup {<<OutboundEntry(x, "freedom"), OutboundEntry(y, "blackhole")>> : x, y \in Tags}

CallerNames == {<<"0","1","_","t","a","i","l">>, <<"T","A","I","L",".","j">>, <<"t","a","i","_","l">>, <<>>}

\* an override document that carries sub-documents and deprecated fields
SingletonOverride ==
    [EmptyConfig EXCEPT !.LogConfig = Some("log2"), !.FakeDNS = Some("fakedns2"), !.Transport = Some(EmptyTransportConfig),
                        !.InboundDetours = Some(<<>>), !.OutboundConfig = Some(OutboundEntry("", "freedom")), !.Port = 7]

OverrideDocs ==
    {[EmptyConfig EXCEPT !.InboundConfigs = l] : l \in InboundOverrides}
    \cup {[EmptyConfig EXCEPT !.OutboundConfigs = l] : l \in OutboundOverrides}
    \cup {[EmptyConfig EXCEPT !.InboundConfigs = <<x>>, !.OutboundConfigs = <<y>>] : x \in {InboundEntry("a", "http")}, y \in {OutboundEntry("b", "freedom")}}
    \cup {SingletonOverride}

\* a base document that already carries sub-documents and deprecated fields
SingletonBase ==
    [EmptyConfig EXCEPT !.LogConfig = Some("log1"), !.RouterConfig = Some("routing1"), !.InboundDetours = Some(<<InboundEntry("a", "socks")>>), !.Port = 9]

\* a base document: every inbound and outbound list of at most MaxEntries
\* entries in all, and two documents that carry sub-documents as well
InitOverride ==
    /\ \/ \E k \in 0..MaxEntries : \E li \in [1..k -> InboundEntries] : \E j \in 0..(MaxEntries - k) : \E lo \in [1..j -> OutboundEntries] :
             c = Some([EmptyConfig EXCEPT !.InboundConfigs = li, !.OutboundConfigs = lo])
       \/ \E l \in {<<<<>>, <<>>>>, <<<<InboundEntry("a", "socks")>>, <<OutboundEntry("", "freedom")>>>>} :
             c = Some([SingletonBase EXCEPT !.InboundConfigs = l[1], !.OutboundConfigs = l[2]])
    /\ cPre = c
    /\ o = Nil
    /\ fn = Nil
    /\ calls = 0
    /\ config = NoCall
    /\ ib = Nil /\ ibRet = NoCall /\ ob = Nil /\ obPre = Nil /\ obRet = NoCall /\ s = Nil /\ t = Nil /\ sPre = Nil

DoOverride ==
    \E doc \in OverrideDocs, caller \in CallerNames :
        /\ calls = 0
        /\ c' = Some(Override(c[1], doc, caller))
        /\ cPre' = c
        /\ o' = Some(doc)
        /\ fn' = caller
        /\ calls' = 1
        /\ UNCHANGED <<config, ib, ibRet, ob, obPre, obRet, s, t, sPre>>

NextOverride == DoOverride

SpecOverride == InitOverride /\ [][NextOverride]_vars

\* the 1-based index of the first entry of list that has the tag, 0 if none
FirstWithTag(list, tag) == IF \E i \in DOMAIN list : list[i].Tag = tag THEN CHOOSE i \in DOMAIN list : list[i].Tag = tag /\ \A j \in 1..(i - 1) : list[j].Tag # tag ELSE 0

\* the override list holds one entry and the base list is not empty
SingleOverride(base, ovr) == Len(ovr) = 1 /\ Len(base) > 0

\* after is before with the entry at index i replaced by e and nothing else changed
ReplacedAt(before, after, i, e) ==
    /\ Len(after) = Len(before)
    /\ after[i] = e
    /\ \A j \in DOMAIN before : j # i => after[j] = before[j]

\* C2: a single override entry whose tag is the tag of a base entry replaces
\* the first base entry with that tag, at its index; the length, the other
\* entries and the order stay.
OverrideReplacesInPlace ==
    calls = 1 =>
        /\ (SingleOverride(cPre[1].InboundConfigs, o[1].InboundConfigs) /\ FirstWithTag(cPre[1].InboundConfigs, o[1].InboundConfigs[1].Tag) > 0)
              => ReplacedAt(cPre[1].InboundConfigs, c[1].InboundConfigs, FirstWithTag(cPre[1].InboundConfigs, o[1].InboundConfigs[1].Tag), o[1].InboundConfigs[1])
        /\ (SingleOverride(cPre[1].OutboundConfigs, o[1].OutboundConfigs) /\ FirstWithTag(cPre[1].OutboundConfigs, o[1].OutboundConfigs[1].Tag) > 0)
              => ReplacedAt(cPre[1].OutboundConfigs, c[1].OutboundConfigs, FirstWithTag(cPre[1].OutboundConfigs, o[1].OutboundConfigs[1].Tag), o[1].OutboundConfigs[1])

\* C2 witness: the second of three inbound entries was replaced by a different
\* entry with its tag
OverrideReplacesWitness ==
    /\ calls = 1 /\ Len(cPre[1].InboundConfigs) = 3 /\ Len(o[1].InboundConfigs) = 1
    /\ FirstWithTag(cPre[1].InboundConfigs, o[1].InboundConfigs[1].Tag) = 2
    /\ c[1].InboundConfigs[2] # cPre[1].InboundConfigs[2]
    /\ c[1].InboundConfigs[2] = o[1].InboundConfigs[1]

\* the caller identity holds the marker "tail" in some letter case
HasTailMarker(caller) == \E i \in 1..(Len(caller) - 3) : \A k \in 1..4 : ToLowerChar(caller[i + k - 1]) = S_tail[k]

\* after is before with e added behind the last entry
AppendedTo(before, after, e) == Len(after) = Len(before) + 1 /\ after[Len(after)] = e /\ \A j \in DOMAIN before : after[j] = before[j]

\* after is before with e added ahead of the first entry
PrependedTo(before, after, e) == Len(after) = Len(before) + 1 /\ after[1] = e /\ \A j \in DOMAIN before : after[j + 1] = before[j]

\* C3: a single override entry whose tag no base entry has is appended to the
\* inbound list; in the outbound list it is appended when the caller identity
\* holds the marker and prepended otherwise.
OverrideAddsUnmatched ==
    calls = 1 =>
        /\ (SingleOverride(cPre[1].InboundConfigs, o[1].InboundConfigs) /\ \A i \in DOMAIN cPre[1].InboundConfigs : cPre[1].InboundConfigs[i].Tag # o[1].InboundConfigs[1].Tag)
              => AppendedTo(cPre[1].InboundConfigs, c[1].InboundConfigs, o[1].InboundConfigs[1])
        /\ (SingleOverride(cPre[1].OutboundConfigs, o[1].OutboundConfigs) /\ \A i \in DOMAIN cPre[1].OutboundConfigs : cPre[1].OutboundConfigs[i].Tag # o[1].OutboundConfigs[1].Tag)
              => IF HasTailMarker(fn) THEN AppendedTo(cPre[1].OutboundConfigs, c[1].OutboundConfigs, o[1].OutboundConfigs[1])
                 ELSE PrependedTo(cPre[1].OutboundConfigs, c[1].OutboundConfigs, o[1].OutboundConfigs[1])

\* C3 witness: an unmatched outbound entry was appended for a caller whose
\* identity holds the marker in capitals
OverrideAddsWitness ==
    /\ calls = 1 /\ Len(cPre[1].OutboundConfigs) = 2 /\ Len(o[1].OutboundConfigs) = 1
    /\ \A i \in DOMAIN cPre[1].OutboundConfigs : cPre[1].OutboundConfigs[i].Tag # o[1].OutboundConfigs[1].Tag
    /\ fn = <<"T","A","I","L",".","j">>
    /\ c[1].OutboundConfigs[3] = o[1].OutboundConfigs[1]
    /\ cPre[1].OutboundConfigs[1] # cPre[1].OutboundConfigs[2]

\* the override list replaces the base list whatever the tags
Wholesale(base, ovr) == Len(ovr) > 1 \/ (Len(base) = 0 /\ Len(ovr) > 0)

\* C4: an override list of more than one entry, or a non-empty override list
\* over an empty base list, becomes the list, entry for entry.
OverrideReplacesWholesale ==
    calls = 1 =>
        /\ Wholesale(cPre[1].InboundConfigs, o[1].InboundConfigs) => c[1].InboundConfigs = o[1].InboundConfigs
        /\ Wholesale(cPre[1].OutboundConfigs, o[1].OutboundConfigs) => c[1].OutboundConfigs = o[1].OutboundConfigs

\* C4 witness: two inbound entries, one with the tag of a base entry, took
\* the place of a base list of one entry
OverrideWholesaleWitness ==
    /\ calls = 1 /\ Len(cPre[1].InboundConfigs) = 1 /\ Len(o[1].InboundConfigs) = 2
    /\ o[1].InboundConfigs[2].Tag = cPre[1].InboundConfigs[1].Tag
    /\ o[1].InboundConfigs[1].Tag # cPre[1].InboundConfigs[1].Tag
    /\ c[1].InboundConfigs = o[1].InboundConfigs

\* C5 as claimed: a single-entry override leaves every base entry whose tag
\* is empty as it was.
EmptyTagNeverReplaced ==
    calls = 1 =>
        /\ SingleOverride(cPre[1].InboundConfigs, o[1].InboundConfigs)
              => \A i \in DOMAIN cPre[1].InboundConfigs : cPre[1].InboundConfigs[i].Tag = "" => c[1].InboundConfigs[i] = cPre[1].InboundConfigs[i]
        /\ (SingleOverride(cPre[1].OutboundConfigs, o[1].OutboundConfigs) /\ Len(c[1].OutboundConfigs) = Len(cPre[1].OutboundConfigs))
              => \A i \in DOMAIN cPre[1].OutboundConfigs : cPre[1].OutboundConfigs[i].Tag = "" => c[1].OutboundConfigs[i] = cPre[1].OutboundConfigs[i]

\* ---- the top-level compiler: every document InitBuild draws, compiled once

MaxInbounds == 2

MaxOutbounds == 2

FallibleModules == {"API", "Metrics", "RouterConfig", "DNSConfig", "Policy", "Reverse", "FakeDNS", "Observatory", "Tun"}

\* documents without listeners: every combination of sub-documents, each
\* fallible one valid or invalid
ModuleDoc(m, st, lg) == [f \in DOMAIN EmptyConfig |-> IF f \in FallibleModules THEN m[f] ELSE IF f = "Stats" THEN st ELSE IF f = "LogConfig" THEN lg ELSE EmptyConfig[f]]

StreamWithTCP == [EmptyStreamConfig EXCEPT !.TCPSettings = Some("b2")]

TransportWithTCP == [EmptyTransportConfig EXCEPT !.TCPConfig = Some("b1"), !.WSConfig = Some("b1")]

InboundNoPort == [InboundEntry("", "socks") EXCEPT !.PortList = Nil]

InboundWithStream == [InboundEntry("a", "socks") EXCEPT !.StreamSetting = Some(EmptyStreamConfig)]

BuildInbounds ==
    {InboundEntry("b", "http"), InboundWithStream, [InboundEntry("c", "socks") EXCEPT !.StreamSetting = Some(StreamWithTCP)], InboundNoPort}

OutboundWithMux(tag, policy) == [OutboundEntry(tag, "freedom") EXCEPT !.StreamSetting = Some(EmptyStreamConfig), !.MuxSettings = Some([Enabled |-> TRUE, Concurrency |-> 8, XudpConcurrency |-> 0, XudpProxyUDP443 |-> policy])]

BuildOutbounds == {OutboundEntry("x", "freedom"), OutboundWithMux("y", ""), OutboundWithMux("z", "bogus")}

\* a document with listeners and senders, deprecated fields included
EntryDoc(port, tr, api, di, li, do, lo) ==
    [EmptyConfig EXCEPT !.Port = port, !.Transport = tr, !.API = api, !.InboundConfig = di[1], !.InboundDetours = di[2], !.InboundConfigs = li,
                        !.OutboundConfig = do[1], !.OutboundDetours = do[2], !.OutboundConfigs = lo]

\* a listener on a socket path, which needs no port specification
InboundUnix == [InboundEntry("u", "socks") EXCEPT !.PortList = Nil, !.ListenOn = Some([Family |-> "Domain", Domain |-> <<"/", "r", "u", "n", "/", "x">>])]

DeprecatedInbounds ==
    {<<Nil, Nil>>, <<Some(InboundNoPort), Nil>>, <<Some(InboundWithStream), Some(<<InboundNoPort, InboundWithStream>>)>>,
     <<Some(InboundNoPort), Some(<<InboundUnix, InboundEntry("d", "http")>>)>>}

DeprecatedOutbounds == {<<Nil, Nil>>, <<Some(OutboundWithMux("w", "")), Some(<<OutboundEntry("v", "freedom")>>)>>}

InitBuild ==
    /\ \/ \E m \in [FallibleModules -> Opt({"ok", "bad"})], st \in Opt({"ok"}), lg \in Opt({"ok"}) : c = Some(ModuleDoc(m, st, lg))
       \/ \E port \in {0, 8}, tr \in Opt({TransportWithTCP}), api \in Opt({"bad"}), di \in DeprecatedInbounds, do \in DeprecatedOutbounds :
             \E li \in SeqsUpTo(BuildInbounds, MaxInbounds), lo \in SeqsUpTo(BuildOutbounds, MaxOutbounds) : c = Some(EntryDoc(port, tr, api, di, li, do, lo))
    /\ cPre = c
    /\ config = NoCall
    /\ calls = 0
    /\ o = Nil /\ fn = Nil
    /\ ib = Nil /\ ibRet = NoCall /\ ob = Nil /\ obPre = Nil /\ obRet = NoCall /\ s = Nil /\ t = Nil /\ sPre = Nil

DoBuild ==
    /\ calls = 0
    /\ config' = Build(c[1])
    /\ c' = Some(BuildAfter(c[1]))
    /\ cPre' = c
    /\ calls' = 1
    /\ UNCHANGED <<o, fn, ib, ibRet, ob, obPre, obRet, s, t, sPre>>

NextBuild == DoBuild

SpecBuild == InitBuild /\ [][NextBuild]_vars

\* the start order the App list is to have
AppOrder == <<"fakedns", "log", "dispatcher", "inbound-manager", "outbound-manager", "api", "metrics", "stats", "router", "dns", "policy", "reverse", "observatory", "tun">>

\* the document field that configures an optional module
ModuleField(type) ==
    CASE type = "fakedns" -> "FakeDNS" [] type = "api" -> "API" [] type = "metrics" -> "Metrics" [] type = "stats" -> "Stats"
      [] type = "router" -> "RouterConfig" [] type = "dns" -> "DNSConfig" [] type = "policy" -> "Policy" [] type = "reverse" -> "Reverse"
      [] type = "observatory" -> "Observatory" [] type = "tun" -> "Tun"

\* the module is in every App list, or the document configures it
InAppList(doc, type) == type \in {"log", "dispatcher", "inbound-manager", "outbound-manager"} \/ doc[ModuleField(type)] # Nil

InboundSource(doc, k) ==
    LET n1 == IF doc.InboundConfig # Nil THEN 1 ELSE 0
        n2 == IF doc.InboundDetours # Nil THEN Len(doc.InboundDetours[1]) ELSE 0
    IN IF k <= n1 THEN doc.InboundConfig[1]
       ELSE IF k <= n1 + n2 THEN doc.InboundDetours[1][k - n1]
       ELSE doc.InboundConfigs[k - n1 - n2]

OutboundSource(doc, k) ==
    LET m1 == IF doc.OutboundConfig # Nil THEN 1 ELSE 0
        m2 == IF doc.OutboundDetours # Nil THEN Len(doc.OutboundDetours[1]) ELSE 0
    IN IF k <= m1 THEN doc.OutboundConfig[1]
       ELSE IF k <= m1 + m2 THEN doc.OutboundDetours[1][k - m1]
       ELSE doc.OutboundConfigs[k - m1 - m2]

InboundCount(doc) ==
    (IF doc.InboundConfig # Nil THEN 1 ELSE 0) + (IF doc.InboundDetours # Nil THEN Len(doc.InboundDetours[1]) ELSE 0) + Len(doc.InboundConfigs)

OutboundCount(doc) ==
    (IF doc.OutboundConfig # Nil THEN 1 ELSE 0) + (IF doc.OutboundDetours # Nil THEN Len(doc.OutboundDetours[1]) ELSE 0) + Len(doc.OutboundConfigs)

\* the k-th inbound entry as it is to be compiled: the first one takes the
\* deprecated port when it has no port specification, the others are as given
InboundToCompile(doc, k) ==
    LET e == InboundSource(doc, k) IN
    IF k = 1 /\ e.PortList = Nil /\ doc.Port > 0
    THEN [e EXCEPT !.PortList = Some([Range |-> <<[From |-> doc.Port, To |-> doc.Port]>>])]
    ELSE e

\* what compiling the k-th inbound (outbound) entry on its own gives
InboundHandler(doc, k) == InboundBuild(Overlaid(InboundToCompile(doc, k), doc.Transport))

OutboundHandler(doc, k) == OutboundBuild(Overlaid(OutboundSource(doc, k), doc.Transport))

\* C11: Build compiles the inbound handlers in the order deprecated singular
\* entry, deprecated detour entries, modern entries, one handler per entry
\* and none dropped or merged, and likewise the outbound handlers; the
\* deprecated port, when positive, is the port specification of the first
\* inbound entry exactly when that entry has none, and of no other entry.
\* Build stops at the first entry that does not compile, with its error.
HandlerOrder ==
    (calls = 1 /\ BuildAppFrom(cPre[1], 1, InitialApp).ok) =>
        LET doc == cPre[1]
            n == InboundCount(doc)
            m == OutboundCount(doc)
            badIn == {k \in 1..n : ~InboundHandler(doc, k).ok}
            badOut == {k \in 1..m : ~OutboundHandler(doc, k).ok}
        IN IF badIn # {}
           THEN ~config.ok /\ \E k \in badIn : (\A j \in badIn : k <= j) /\ config.err = InboundHandler(doc, k).err
           ELSE IF badOut # {}
           THEN ~config.ok /\ \E k \in badOut : (\A j \in badOut : k <= j) /\ config.err = OutboundHandler(doc, k).err
           ELSE /\ config.ok
                /\ Len(config.val[1].Inbound) = n
                /\ Len(config.val[1].Outbound) = m
                /\ \A k \in 1..n : config.val[1].Inbound[k] = InboundHandler(doc, k).val[1]
                /\ \A k \in 1..m : config.val[1].Outbound[k] = OutboundHandler(doc, k).val[1]
                /\ \A k \in 1..n : config.val[1].Inbound[k].Tag = InboundSource(doc, k).Tag
                /\ \A k \in 1..m : config.val[1].Outbound[k].Tag = OutboundSource(doc, k).Tag
                /\ \A k \in 1..n :
                      (InboundSource(doc, k).PortList = Nil /\ InboundSource(doc, k).ListenOn = Nil)
                          => (k = 1 /\ doc.Port > 0
                              /\ config.val[1].Inbound[k].ReceiverSettings.PortList = Some([Range |-> <<[From |-> doc.Port, To |-> doc.Port]>>]))
                /\ \A k \in 1..n :
                      InboundSource(doc, k).PortList # Nil
                          => config.val[1].Inbound[k].ReceiverSettings.PortList = Some([Range |-> InboundSource(doc, k).PortList[1].Range])

\* C11 witness: a document with a positive deprecated port and entries in all
\* six fields compiles; the first inbound, which has no port specification,
\* listens on the deprecated port, a later inbound without one has no port
\* list, and the handlers follow the singular, detour, modern order
HandlerOrderWitness ==
    /\ calls = 1 /\ config.ok
    /\ cPre[1].Port = 8
    /\ cPre[1].InboundConfig # Nil /\ cPre[1].InboundConfig[1].PortList = Nil
    /\ cPre[1].InboundDetours # Nil /\ Len(cPre[1].InboundDetours[1]) = 2 /\ cPre[1].InboundDetours[1][1].PortList = Nil
    /\ Len(cPre[1].InboundConfigs) = MaxInbounds
    /\ cPre[1].OutboundConfig # Nil /\ cPre[1].OutboundDetours # Nil /\ Len(cPre[1].OutboundConfigs) = MaxOutbounds
    /\ Len(config.val[1].Inbound) = 3 + MaxInbounds
    /\ config.val[1].Inbound[1].ReceiverSettings.PortList = Some([Range |-> <<[From |-> 8, To |-> 8]>>])
    /\ config.val[1].Inbound[2].ReceiverSettings.PortList = Nil
    /\ config.val[1].Inbound[3].ReceiverSettings.PortList = Some([Range |-> <<[From |-> 1, To |-> 1]>>])
    /\ config.val[1].Inbound[4].Tag = cPre[1].InboundConfigs[1].Tag
    /\ cPre[1].InboundConfigs[1].Tag # cPre[1].InboundConfigs[MaxInbounds].Tag
    /\ Len(config.val[1].Outbound) = 2 + MaxOutbounds
    /\ config.val[1].Outbound[1].Tag = "w" /\ config.val[1].Outbound[2].Tag = "v"
    /\ config.val[1].Outbound[3].Tag = cPre[1].OutboundConfigs[1].Tag
    /\ cPre[1].OutboundConfigs[1].Tag # cPre[1].OutboundConfigs[MaxOutbounds].Tag

\* C10 as claimed: whatever Build returns, the document is as it was before
\* the call.
BuildLeavesDocument == calls = 1 => c = cPre

\* ---- the overlay on its own: every s and t, the overlay applied repeatedly

MaxCalls == 2

BlockVals == {"b1", "b2"}

StreamConfigs == [TCPSettings : Opt(BlockVals), KCPSettings : Opt(BlockVals), WSSettings : Opt(BlockVals), HTTPSettings : Opt(BlockVals), DSSettings : Opt(BlockVals), SocketSettings : {Nil}]

TransportConfigs == [TCPConfig : Opt(BlockVals), KCPConfig : Opt(BlockVals), WSConfig : Opt(BlockVals), HTTPConfig : Opt(BlockVals), DSConfig : Opt(BlockVals)]

InitOverlay ==
    /\ s \in StreamConfigs
    /\ t \in TransportConfigs
    /\ sPre = s
    /\ calls = 0
    /\ c = Nil /\ cPre = Nil /\ o = Nil /\ fn = Nil /\ config = NoCall
    /\ ib = Nil /\ ibRet = NoCall /\ ob = Nil /\ obPre = Nil /\ obRet = NoCall

ApplyTransportConfig ==
    /\ calls < MaxCalls
    /\ s' = applyTransportConfig(s, t)
    /\ sPre' = s
    /\ calls' = calls + 1
    /\ UNCHANGED <<c, cPre, o, fn, config, ib, ibRet, ob, obPre, obRet, t>>

NextOverlay == ApplyTransportConfig

SpecOverlay == InitOverlay /\ [][NextOverlay]_vars

\* C9: after every overlay each block that was set before it is unchanged and
\* each block that was unset holds the defaults' block; a second overlay with
\* the same defaults leaves the stream settings as the first one left them.
OverlayNonDestructiveIdempotent ==
    /\ calls >= 1 => \A b \in BlockNames :
          /\ sPre[b] # Nil => s[b] = sPre[b]
          /\ sPre[b] = Nil => s[b] = t[TransportField(b)]
    /\ calls >= 2 => s = sPre

\* C9 witness: an overlay has run twice on settings with a set block and an
\* unset block that the defaults fill
OverlayWitness ==
    /\ calls = 2
    /\ \E b1, b2 \in BlockNames : s[b1] # t[TransportField(b1)] /\ s[b2] # Nil /\ s[b2] = t[TransportField(b2)]
    /\ \E b \in BlockNames : s[b] = Nil

====
